---------------------------- MODULE Spec2Model ----------------------------
(***************************************************************************)
(* A model of src/src/lib/udpin.ts: the DIGIPIN (UDPIN) encoder            *)
(* generateUDPIN, the decoder decodeUDPIN, the validator isValidUDPIN and  *)
(* the formatter formatUDPIN.                                              *)
(*                                                                         *)
(* Numbers.  The source computes in IEEE doubles.  Every bound, step and   *)
(* centre it computes is a dyadic rational of at most 32 significant bits  *)
(* (2.5, 38.5, 63.5, 99.5, +-90, +-180 and sums of quarterings of their    *)
(* spans, at most 12 levels deep), so every such operation is exact in a   *)
(* double.  The model therefore computes in fixed point: a latitude is an  *)
(* integer number of 2^-23 degree, a longitude an integer number of 2^-22  *)
(* degree (the two scales keep the 360 degree span inside TLC's 32 bit     *)
(* integers).  DivisionsExact states that no division of the model ever    *)
(* leaves a remainder, so \div is the source's "/".  Input coordinates are *)
(* drawn from that lattice.                                                *)
(*                                                                         *)
(* Strings are sequences of one-character strings; "U+FB00" stands for the *)
(* single character LATIN SMALL LIGATURE FF, which toUpperCase() turns     *)
(* into the two characters "FF".                                           *)
(*                                                                         *)
(* The module also models the saved-locations store of                     *)
(* src/src/lib/appStorage.ts (saveLocation, deleteLocation,                *)
(* clearAllLocations over one localStorage item).  The two libraries share *)
(* no state: Spec runs the DIGIPIN functions with the store left alone,    *)
(* StoreSpec runs the store with the DIGIPIN functions idle.               *)
(***************************************************************************)
EXTENDS Integers, Sequences, FiniteSets, TLC

VARIABLES
    pc,     \* "idle" | "generateUDPIN" | "decodeUDPIN" | "returned"
    enc,    \* the locals of a running generateUDPIN call
    dec,    \* the locals of a running decodeUDPIN call
    ret,    \* the last call: function, argument, value or thrown error
    hist,   \* the earlier calls whose results were passed on to this one
    store,  \* the list under localStorage key 'savedLocations', first entry first
    now,    \* the value Date.now() returned last
    sret,   \* the last call of the store: function, argument, value returned
    spent   \* how many of the MaxIncidents incidents the behaviour has had

uvars == <<pc, enc, dec, ret, hist>>

svars == <<store, now, sret, spent>>

vars == <<pc, enc, dec, ret, hist, store, now, sret, spent>>

(***************************************************************************)
(* Bounds of the model.                                                    *)
(***************************************************************************)
\* input strings have 0..MaxTextLen characters before decoration
MaxTextLen == 13
\* number of symbol patterns the input strings are built from
NumPatterns == 2
\* number of evenly spaced sample coordinates per axis, less one
CoordSamples == 5
\* how many results in a row may be passed on to a next call
MaxChain == 2
\* Date.now() returns 1..MaxClock
MaxClock == 11
\* how many incidents a behaviour of the store may have: a Date.now() that
\* returns the value it returned the call before, a localStorage call that
\* throws, a deleteLocation or clearAllLocations that changes the store
MaxIncidents == 2

(***************************************************************************)
(* Fixed point scales.                                                     *)
(***************************************************************************)
LatScale == 2^23
LngScale == 2^22

(***************************************************************************)
(* GridSpecification: udpin.ts lines 12-45.                                *)
(***************************************************************************)
DIGIPIN_GRID_twice ==
    << <<"F", "C", "9", "8">>,
       <<"J", "3", "2", "7">>,
       <<"K", "4", "5", "6">>,
       <<"L", "M", "P", "F">> >>

DIGIPIN_GRID ==
    << <<"F", "C", "9", "8">>,
       <<"J", "3", "2", "7">>,
       <<"K", "4", "5", "6">>,
       <<"L", "M", "P", "T">> >>

\* 2.5, 38.5 degrees of latitude; 63.5, 99.5 degrees of longitude
INDIA_BOUNDS ==
    [minLat |-> (5 * LatScale) \div 2,   maxLat |-> (77 * LatScale) \div 2,
     minLon |-> (127 * LngScale) \div 2, maxLon |-> (199 * LngScale) \div 2]

GLOBAL_BOUNDS ==
    [minLat |-> -90 * LatScale,  maxLat |-> 90 * LatScale,
     minLon |-> -180 * LngScale, maxLon |-> 180 * LngScale]

isInIndia_strict(lat, lon) ==
    /\ lat > INDIA_BOUNDS.minLat
    /\ lat < INDIA_BOUNDS.maxLat
    /\ lon > INDIA_BOUNDS.minLon
    /\ lon < INDIA_BOUNDS.maxLon

isInIndia(lat, lon) ==
    /\ lat >= INDIA_BOUNDS.minLat
    /\ lat <= INDIA_BOUNDS.maxLat
    /\ lon >= INDIA_BOUNDS.minLon
    /\ lon <= INDIA_BOUNDS.maxLon

(***************************************************************************)
(* String helpers: String.prototype.replace(/-/g, ''), toUpperCase, slice. *)
(***************************************************************************)
RECURSIVE removeHyphens(_)
removeHyphens(s) ==
    IF s = <<>> THEN <<>>
    ELSE IF Head(s) = "-" THEN removeHyphens(Tail(s))
    ELSE <<Head(s)>> \o removeHyphens(Tail(s))

\* the upper case of one character: a string, not always of length 1
upperOfChar(c) ==
    CASE c = "f" -> <<"F">>
      [] c = "c" -> <<"C">>
      [] c = "j" -> <<"J">>
      [] c = "k" -> <<"K">>
      [] c = "l" -> <<"L">>
      [] c = "m" -> <<"M">>
      [] c = "p" -> <<"P">>
      [] c = "t" -> <<"T">>
      [] c = "x" -> <<"X">>
      [] c = "U+FB00" -> <<"F", "F">>
      [] OTHER -> <<c>>

RECURSIVE toUpperCase(_)
toUpperCase(s) ==
    IF s = <<>> THEN <<>> ELSE upperOfChar(Head(s)) \o toUpperCase(Tail(s))

\* s.slice(from, to) for 0 <= from, to
slice(s, from, to) ==
    LET hi == IF to < Len(s) THEN to ELSE Len(s)
    IN  IF from >= hi THEN <<>> ELSE SubSeq(s, from + 1, hi)

clean_keepCase(udpin) == removeHyphens(udpin)

\* udpin.replace(/-/g, '').toUpperCase()
clean(udpin) == toUpperCase(removeHyphens(udpin))


(***************************************************************************)
(* Validator: isValidUDPIN, udpin.ts lines 240-252.                        *)
(***************************************************************************)
validChars_withX ==
    {"F", "C", "9", "8", "J", "3", "2", "7", "K", "4", "5", "6", "L", "M", "P", "T", "X"}

validChars ==
    {"F", "C", "9", "8", "J", "3", "2", "7", "K", "4", "5", "6", "L", "M", "P", "T"}

lengthOk_range(n) == n >= 10 /\ n <= 12

\* the negation of: cleanUDPIN.length !== 10 && cleanUDPIN.length !== 12
lengthOk(n) == ~(n # 10 /\ n # 12)

isValidUDPIN_lengthOnly(udpin) == lengthOk(Len(clean(udpin)))

isValidUDPIN_noClean(udpin) ==
    IF ~lengthOk(Len(udpin)) THEN FALSE
    ELSE \A k \in 1..Len(udpin) : udpin[k] \in validChars

isValidUDPIN(udpin) ==
    LET cleanUDPIN == clean(udpin)
    IN  IF ~lengthOk(Len(cleanUDPIN)) THEN FALSE
        ELSE \A k \in 1..Len(cleanUDPIN) : cleanUDPIN[k] \in validChars

(***************************************************************************)
(* Formatter: formatUDPIN, udpin.ts lines 259-273.                         *)
(***************************************************************************)
formatUDPIN_sameGroups(udpin) ==
    LET cleanUDPIN == clean(udpin)
    IN  IF Len(cleanUDPIN) = 10 \/ Len(cleanUDPIN) = 12
        THEN slice(cleanUDPIN, 0, 4) \o <<"-">> \o slice(cleanUDPIN, 4, 8)
             \o <<"-">> \o slice(cleanUDPIN, 8, Len(cleanUDPIN))
        ELSE cleanUDPIN

formatUDPIN_noClean(udpin) ==
    IF Len(udpin) = 10
    THEN slice(udpin, 0, 3) \o <<"-">> \o slice(udpin, 3, 6)
         \o <<"-">> \o slice(udpin, 6, Len(udpin))
    ELSE IF Len(udpin) = 12
    THEN slice(udpin, 0, 4) \o <<"-">> \o slice(udpin, 4, 8)
         \o <<"-">> \o slice(udpin, 8, Len(udpin))
    ELSE udpin

formatUDPIN(udpin) ==
    LET cleanUDPIN == clean(udpin)
    IN  IF Len(cleanUDPIN) = 10
        THEN slice(cleanUDPIN, 0, 3) \o <<"-">> \o slice(cleanUDPIN, 3, 6)
             \o <<"-">> \o slice(cleanUDPIN, 6, Len(cleanUDPIN))
        ELSE IF Len(cleanUDPIN) = 12
        THEN slice(cleanUDPIN, 0, 4) \o <<"-">> \o slice(cleanUDPIN, 4, 8)
             \o <<"-">> \o slice(cleanUDPIN, 8, Len(cleanUDPIN))
        ELSE cleanUDPIN

(***************************************************************************)
(* Encoder: generateUDPIN, udpin.ts lines 54-111.                          *)
(***************************************************************************)
minOf(S) == CHOOSE x \in S : \A y \in S : x <= y

\* const digits = isIndia ? 10 : 12
digitsFor(isIndia) == IF isIndia THEN 10 ELSE 12

boundsFor_global(isIndia) == GLOBAL_BOUNDS

boundsFor(isIndia) == IF isIndia THEN INDIA_BOUNDS ELSE GLOBAL_BOUNDS

rowOf_strict(lat, maxLat, latDiv) ==
    LET hits == {i \in 0..3 : lat > (maxLat - (i * latDiv)) - latDiv}
    IN  IF hits = {} THEN 0 ELSE minOf(hits)

\* the row loop, lines 74-81: the first i with lat >= latBoundary - latDiv,
\* and 0, the initial value of row, when no i matches
rowOf(lat, maxLat, latDiv) ==
    LET hits == {i \in 0..3 : lat >= (maxLat - (i * latDiv)) - latDiv}
    IN  IF hits = {} THEN 0 ELSE minOf(hits)

\* the column loop, lines 84-91: the first i with lng < lngBoundary, and 0,
\* the initial value of col, when no i matches
colOf(lng, minLng, lngDiv) ==
    LET hits == {i \in 0..3 : lng < minLng + ((i + 1) * lngDiv)}
    IN  IF hits = {} THEN 0 ELSE minOf(hits)

hyphenAfter_never(isIndia, level) == FALSE

\* lines 103-107
hyphenAfter(isIndia, level) ==
    IF isIndia THEN level = 3 \/ level = 6 ELSE level = 4 \/ level = 8

\* lines 97-100: the working box of the next level
narrow_staleWest(minLat, maxLat, minLng, maxLng, row, col, latDiv, lngDiv) ==
    [minLat |-> maxLat - ((row + 1) * latDiv),
     maxLat |-> maxLat - (row * latDiv),
     minLng |-> minLng + (col * lngDiv),
     maxLng |-> minLng + lngDiv]

narrow(minLat, maxLat, minLng, maxLng, row, col, latDiv, lngDiv) ==
    LET newMinLng == minLng + (col * lngDiv)
    IN  [minLat |-> maxLat - ((row + 1) * latDiv),
         maxLat |-> maxLat - (row * latDiv),
         minLng |-> newMinLng,
         maxLng |-> newMinLng + lngDiv]

loopContinues_short(level, digits) == level < digits

\* the loop condition of line 68
loopContinues(level, digits) == level <= digits

(***************************************************************************)
(* Decoder: decodeUDPIN, udpin.ts lines 181-233.                           *)
(***************************************************************************)
\* the grid scan of lines 204-221: the first (row, col), rows first, whose
\* symbol is char; found is FALSE when the scan ends without a match
gridScan(char) ==
    LET hits == {k \in 0..15 : DIGIPIN_GRID[(k \div 4) + 1][(k % 4) + 1] = char}
    IN  IF hits = {} THEN [found |-> FALSE, row |-> 0, col |-> 0]
        ELSE [found |-> TRUE, row |-> minOf(hits) \div 4, col |-> minOf(hits) % 4]

decodeIsIndia_never(cleanUDPIN) == FALSE

\* const isIndia = cleanUDPIN.length === 10
decodeIsIndia(cleanUDPIN) == Len(cleanUDPIN) = 10

center_low(lo, hi) == lo

\* (min + max) / 2
center(lo, hi) == (lo + hi) \div 2

\* lines 199-226 as a function: the working box after the first i symbols
\* of a cleaned code of 10 or 12 grid symbols
RECURSIVE boxAfter(_, _)
boxAfter(cleanUDPIN, i) ==
    IF i = 0
    THEN boundsFor(decodeIsIndia(cleanUDPIN))
    ELSE LET b == boxAfter(cleanUDPIN, i - 1)
             at == gridScan(cleanUDPIN[i])
             latStep == (b.maxLat - b.minLat) \div 4
             lonStep == (b.maxLon - b.minLon) \div 4
             minLat == b.minLat + (latStep * at.row)
             minLon == b.minLon + (lonStep * at.col)
         IN  [minLat |-> minLat, maxLat |-> minLat + latStep,
              minLon |-> minLon, maxLon |-> minLon + lonStep]

\* lines 181-233 as a function of a code that isValidUDPIN accepts
decodeOf(udpin) ==
    LET cleanUDPIN == clean(udpin)
        b == boxAfter(cleanUDPIN, Len(cleanUDPIN))
    IN  [lat |-> center(b.minLat, b.maxLat), lng |-> center(b.minLon, b.maxLon)]

(***************************************************************************)
(* Inputs.                                                                 *)
(***************************************************************************)
symbolAt(k) == DIGIPIN_GRID[(k \div 4) + 1][(k % 4) + 1]

\* n grid symbols, the p-th pattern
Pattern(p, n) == [k \in 1..n |-> symbolAt(((((2 * p) - 1) * k) + (13 * (p - 1))) % 16)]

\* characters that are not grid symbols: the separator, a lower case grid
\* letter, other letters, a ligature
ExtraChars == {"-", "t", "X", "x", "U+FB00"}

Subst(s, k, ch) == [s EXCEPT ![k] = ch]

InsertAt(s, h, ch) == SubSeq(s, 1, h) \o <<ch>> \o SubSeq(s, h + 1, Len(s))

\* the codes the self-test of lines 116-168 expects, which are also the
\* literal codes of the specification
Code_DakBhawan == <<"3", "9", "J", "-", "4", "9", "L", "-", "L", "8", "T", "4">>
Code_Global == <<"3", "F", "2", "6", "-", "C", "4", "9", "J", "-", "2", "M", "P", "4">>
Code_India == <<"4", "2", "2", "-", "5", "7", "3", "-", "C", "F", "8", "6">>
Code_SouthWest == <<"F", "C", "C", "-", "C", "C", "C", "-", "C", "C", "C", "C">>
Code_NorthEast == <<"T", "L", "T", "-", "T", "T", "T", "-", "T", "T", "T", "T">>

TestCodes == {Code_DakBhawan, Code_Global, Code_India, Code_SouthWest, Code_NorthEast}

TextInputs ==
    UNION { {Pattern(p, n)}
            \cup {Subst(Pattern(p, n), k, ch) : k \in 1..n, ch \in ExtraChars}
            \cup {InsertAt(Pattern(p, n), h, "-") : h \in 0..n}
          : p \in 1..NumPatterns, n \in 0..MaxTextLen }
    \cup TestCodes

\* The decimal literal whole.micro degrees (micro in millionths) on the
\* lattice of 1/scale degree, rounded down.  The encoder compares a
\* coordinate only with lattice values, by >= for a latitude and by < for a
\* longitude, and either comparison has the same outcome for a number and
\* for its floor; none of the literals is within a lattice step of an edge
\* of the Regional box, so isInIndia is unchanged as well.  (10^6 = 64 *
\* 15625; the sum is split to stay inside 32 bits.)
Degrees(whole, micro, scale) ==
    (whole * scale)
    + ((micro \div 15625) * (scale \div 64))
    + (((micro % 15625) * (scale \div 64)) \div 15625)

\* the coordinates of the self-test, lines 120-121, 130-131, 140-141
Point_DakBhawan == [lat |-> Degrees(28, 622788, LatScale), lng |-> Degrees(77, 213033, LngScale)]
Point_Global == [lat |-> Degrees(17, 362231, LatScale), lng |-> Degrees(78, 523231, LngScale)]
Point_India == [lat |-> Degrees(17, 362230, LatScale), lng |-> Degrees(78, 523235, LngScale)]
\* lines 150-151 and 160-161: 2.5, 63.5 and 38.5, 99.5
Point_SouthWest == [lat |-> INDIA_BOUNDS.minLat, lng |-> INDIA_BOUNDS.minLon]
Point_NorthEast == [lat |-> INDIA_BOUNDS.maxLat, lng |-> INDIA_BOUNDS.maxLon]

TestPoints == {Point_DakBhawan, Point_Global, Point_India}

\* a bound, one unit either side of it
Around(b) == {b - 1, b, b + 1}

Samples(lo, hi) == {lo + (k * ((hi - lo) \div CoordSamples)) : k \in 0..CoordSamples}

LatInputs ==
    Around(INDIA_BOUNDS.minLat) \cup Around(INDIA_BOUNDS.maxLat)
    \cup {GLOBAL_BOUNDS.minLat, GLOBAL_BOUNDS.maxLat}
    \cup {INDIA_BOUNDS.maxLat - ((INDIA_BOUNDS.maxLat - INDIA_BOUNDS.minLat) \div 4),
          GLOBAL_BOUNDS.maxLat - ((GLOBAL_BOUNDS.maxLat - GLOBAL_BOUNDS.minLat) \div 4)}
    \cup Samples(GLOBAL_BOUNDS.minLat, GLOBAL_BOUNDS.maxLat)

LngInputs ==
    Around(INDIA_BOUNDS.minLon) \cup Around(INDIA_BOUNDS.maxLon)
    \cup {GLOBAL_BOUNDS.minLon, GLOBAL_BOUNDS.maxLon}
    \cup {INDIA_BOUNDS.minLon + ((INDIA_BOUNDS.maxLon - INDIA_BOUNDS.minLon) \div 4),
          GLOBAL_BOUNDS.minLon + ((GLOBAL_BOUNDS.maxLon - GLOBAL_BOUNDS.minLon) \div 4)}
    \cup Samples(GLOBAL_BOUNDS.minLon, GLOBAL_BOUNDS.maxLon)

(***************************************************************************)
(* The state machine.                                                      *)
(***************************************************************************)
NoEnc == [level |-> 0]
NoDec == [i |-> 0]
NoRet == [fn |-> "none"]

Returned(fn, arg, threw, out) == [fn |-> fn, arg |-> arg, threw |-> threw, out |-> out]

Init ==
    /\ pc = "idle"
    /\ enc = NoEnc
    /\ dec = NoDec
    /\ ret = NoRet
    /\ hist = <<>>
    /\ store = <<>>
    /\ now = 0
    /\ sret = NoRet
    /\ spent = 0

\* lines 55-65: the call, up to the first test of the loop condition
generateUDPIN_Start(lat, lng, h) ==
    /\ LET isIndia == isInIndia(lat, lng)
           bounds == boundsFor(isIndia)
       IN  enc' = [lat |-> lat, lng |-> lng, isIndia |-> isIndia,
                   digits |-> digitsFor(isIndia),
                   minLat |-> bounds.minLat, maxLat |-> bounds.maxLat,
                   minLng |-> bounds.minLon, maxLng |-> bounds.maxLon,
                   udpin |-> <<>>, level |-> 1]
    /\ pc' = "generateUDPIN"
    /\ hist' = h
    /\ ret' = NoRet
    /\ dec' = NoDec
    /\ UNCHANGED svars

\* lines 68-108: one pass of the loop body
generateUDPIN_Level ==
    /\ pc = "generateUDPIN"
    /\ loopContinues(enc.level, enc.digits)
    /\ LET latDiv == (enc.maxLat - enc.minLat) \div 4
           lngDiv == (enc.maxLng - enc.minLng) \div 4
           row == rowOf(enc.lat, enc.maxLat, latDiv)
           col == colOf(enc.lng, enc.minLng, lngDiv)
           box == narrow(enc.minLat, enc.maxLat, enc.minLng, enc.maxLng,
                         row, col, latDiv, lngDiv)
           udpin == enc.udpin \o <<DIGIPIN_GRID[row + 1][col + 1]>>
       IN  enc' = [enc EXCEPT
                     !.minLat = box.minLat, !.maxLat = box.maxLat,
                     !.minLng = box.minLng, !.maxLng = box.maxLng,
                     !.udpin = IF hyphenAfter(enc.isIndia, enc.level)
                               THEN udpin \o <<"-">> ELSE udpin,
                     !.level = enc.level + 1]
    /\ UNCHANGED <<pc, dec, ret, hist>>
    /\ UNCHANGED svars

\* line 110
generateUDPIN_Return ==
    /\ pc = "generateUDPIN"
    /\ ~loopContinues(enc.level, enc.digits)
    /\ ret' = Returned("generateUDPIN", [lat |-> enc.lat, lng |-> enc.lng], FALSE, enc.udpin)
    /\ pc' = "returned"
    /\ enc' = NoEnc
    /\ UNCHANGED <<dec, hist>>
    /\ UNCHANGED svars

\* lines 181-196: the call, up to the first test of the loop condition, or
\* the throw of line 186
decodeUDPIN_Start(udpin, h) ==
    /\ LET cleanUDPIN == clean(udpin)
           isIndia == decodeIsIndia(cleanUDPIN)
           bounds == boundsFor(isIndia)
       IN  IF ~isValidUDPIN(cleanUDPIN)
           THEN /\ ret' = Returned("decodeUDPIN", udpin, TRUE, "Invalid DIGIPIN format")
                /\ pc' = "returned"
                /\ dec' = NoDec
           ELSE /\ dec' = [udpin |-> udpin, cleanUDPIN |-> cleanUDPIN, isIndia |-> isIndia,
                           minLat |-> bounds.minLat, maxLat |-> bounds.maxLat,
                           minLon |-> bounds.minLon, maxLon |-> bounds.maxLon,
                           i |-> 0]
                /\ pc' = "decodeUDPIN"
                /\ ret' = NoRet
    /\ hist' = h
    /\ enc' = NoEnc
    /\ UNCHANGED svars

\* lines 199-226: one pass of the loop body
decodeUDPIN_Char ==
    /\ pc = "decodeUDPIN"
    /\ dec.i < Len(dec.cleanUDPIN)
    /\ LET char == dec.cleanUDPIN[dec.i + 1]
           at == gridScan(char)
           latStep == (dec.maxLat - dec.minLat) \div 4
           lonStep == (dec.maxLon - dec.minLon) \div 4
           minLat == dec.minLat + (latStep * at.row)
           maxLat == minLat + latStep
           minLon == dec.minLon + (lonStep * at.col)
           maxLon == minLon + lonStep
       IN  IF at.found
           THEN /\ dec' = [dec EXCEPT
                             !.minLat = minLat, !.maxLat = maxLat,
                             !.minLon = minLon, !.maxLon = maxLon,
                             !.i = dec.i + 1]
                /\ UNCHANGED <<pc, ret>>
           ELSE /\ ret' = Returned("decodeUDPIN", dec.udpin, TRUE,
                                   <<"Invalid character in DIGIPIN: ", char>>)
                /\ pc' = "returned"
                /\ dec' = NoDec
    /\ UNCHANGED <<enc, hist>>
    /\ UNCHANGED svars

\* lines 229-232
decodeUDPIN_Return ==
    /\ pc = "decodeUDPIN"
    /\ ~(dec.i < Len(dec.cleanUDPIN))
    /\ ret' = Returned("decodeUDPIN", dec.udpin, FALSE,
                       [lat |-> center(dec.minLat, dec.maxLat),
                        lng |-> center(dec.minLon, dec.maxLon)])
    /\ pc' = "returned"
    /\ dec' = NoDec
    /\ UNCHANGED <<enc, hist>>
    /\ UNCHANGED svars

isValidUDPIN_Call(udpin, h) ==
    /\ ret' = Returned("isValidUDPIN", udpin, FALSE, isValidUDPIN(udpin))
    /\ pc' = "returned"
    /\ hist' = h
    /\ UNCHANGED <<enc, dec>>
    /\ UNCHANGED svars

formatUDPIN_Call(udpin, h) ==
    /\ ret' = Returned("formatUDPIN", udpin, FALSE, formatUDPIN(udpin))
    /\ pc' = "returned"
    /\ hist' = h
    /\ UNCHANGED <<enc, dec>>
    /\ UNCHANGED svars

(***************************************************************************)
(* The callers: a call on a fresh input, or on the value the last call     *)
(* returned (App.tsx 135-140, 238-241; ToAddress.tsx 56-59, 139-146).      *)
(***************************************************************************)
CoordInputs == {[lat |-> lat, lng |-> lng] : lat \in LatInputs, lng \in LngInputs}
               \cup TestPoints

Encode == \E c \in CoordInputs :
              pc = "idle" /\ generateUDPIN_Start(c.lat, c.lng, <<>>)

Decode == \E t \in TextInputs : pc = "idle" /\ decodeUDPIN_Start(t, <<>>)

Validate == \E t \in TextInputs : pc = "idle" /\ isValidUDPIN_Call(t, <<>>)

Format == \E t \in TextInputs : pc = "idle" /\ formatUDPIN_Call(t, <<>>)

PassOn == pc = "returned" /\ ~ret.threw /\ Len(hist) < MaxChain

IsText == ret.fn \in {"generateUDPIN", "formatUDPIN"}

DecodeResult == PassOn /\ IsText /\ decodeUDPIN_Start(ret.out, Append(hist, ret))

ValidateResult == PassOn /\ IsText /\ isValidUDPIN_Call(ret.out, Append(hist, ret))

FormatResult == PassOn /\ IsText /\ formatUDPIN_Call(ret.out, Append(hist, ret))

EncodeResult ==
    /\ PassOn
    /\ ret.fn = "decodeUDPIN"
    /\ generateUDPIN_Start(ret.out.lat, ret.out.lng, Append(hist, ret))

Done ==
    /\ pc = "returned"
    /\ pc' = "idle"
    /\ ret' = NoRet
    /\ hist' = <<>>
    /\ UNCHANGED <<enc, dec>>
    /\ UNCHANGED svars

Next ==
    \/ Encode
    \/ Decode
    \/ Validate
    \/ Format
    \/ generateUDPIN_Level
    \/ generateUDPIN_Return
    \/ decodeUDPIN_Char
    \/ decodeUDPIN_Return
    \/ DecodeResult
    \/ ValidateResult
    \/ FormatResult
    \/ EncodeResult
    \/ Done

Spec == Init /\ [][Next]_vars

\* A call runs to its end: the loops of generateUDPIN and decodeUDPIN are
\* synchronous code, which nothing suspends.
FairSpec ==
    /\ Spec
    /\ WF_vars(generateUDPIN_Level)
    /\ WF_vars(generateUDPIN_Return)
    /\ WF_vars(decodeUDPIN_Char)
    /\ WF_vars(decodeUDPIN_Return)

(***************************************************************************)
(* The saved-locations store: src/src/lib/appStorage.ts lines 62-160.      *)
(* An entry is modelled by the fields the functions read, id, lat and lng; *)
(* name, address, udpin and timestamp are carried along unread.  An id is  *)
(* the number Date.now() returned (toString is one-to-one on numbers).     *)
(* Each call runs to its end without another call in between: the          *)
(* functions are synchronous.                                              *)
(***************************************************************************)
MAX_SAVED_LOCATIONS == 10

\* lines 118-126: the parsed item, [] when there is none
getSavedLocations == store

isDuplicate_headOnly(locations, location) ==
    /\ locations # <<>>
    /\ locations[1].lat = location.lat /\ locations[1].lng = location.lng

\* lines 82-84: locations.some(...)
isDuplicate(locations, location) ==
    \E k \in 1..Len(locations) :
        locations[k].lat = location.lat /\ locations[k].lng = location.lng

pop_first(locations) == SubSeq(locations, 2, Len(locations))

\* Array.prototype.pop: the array without its last element
pop(locations) == SubSeq(locations, 1, Len(locations) - 1)

trim_never(locations) == locations

\* lines 92-95
trim(locations) ==
    IF Len(locations) >= MAX_SAVED_LOCATIONS THEN pop(locations) ELSE locations

filter_firstOnly(locations, id) ==
    LET hits == {k \in 1..Len(locations) : locations[k].id = id}
    IN  IF hits = {} THEN locations
        ELSE SubSeq(locations, 1, minOf(hits) - 1)
             \o SubSeq(locations, minOf(hits) + 1, Len(locations))

\* line 134: locations.filter(loc => loc.id !== id)
filter(locations, id) == SelectSeq(locations, LAMBDA loc : loc.id # id)

StoreReturned(fn, arg, out) == [fn |-> fn, arg |-> arg, out |-> out]

\* Date.now() returns t: the clock has moved on by a millisecond, or the
\* call falls into the millisecond of the call before
DateNow(t) ==
    /\ t \in {now, now + 1}
    /\ t >= 1
    /\ t <= MaxClock
    /\ now' = t

\* the incidents of a step: a clock that stalled, a call that threw, a
\* removal that changed the store
Incidents(stalled, threw, removed) ==
    LET n == (IF stalled THEN 1 ELSE 0) + (IF threw THEN 1 ELSE 0)
             + (IF removed THEN 1 ELSE 0)
    IN  /\ spent + n <= MaxIncidents
        /\ spent' = spent + n

\* lines 78-113; ok is FALSE when localStorage.setItem throws (line 109).  A
\* call that returns before it writes has one outcome, taken with ok = TRUE.
saveLocation(location, ok) ==
    /\ LET locations == getSavedLocations
       IN  IF isDuplicate(locations, location)
           THEN /\ ok
                /\ sret' = StoreReturned("saveLocation", location, FALSE)
                /\ UNCHANGED <<store, now, spent>>
           ELSE \E t \in 1..MaxClock :
                  /\ DateNow(t)
                  /\ Incidents(t = now, ~ok, FALSE)
                  /\ LET newLocation == [id |-> t, lat |-> location.lat,
                                         lng |-> location.lng]
                         updatedLocations == <<newLocation>> \o trim(locations)
                     IN  IF ok
                         THEN /\ store' = updatedLocations
                              /\ sret' = StoreReturned("saveLocation", location, TRUE)
                         ELSE /\ store' = store
                              /\ sret' = StoreReturned("saveLocation", location, FALSE)
    /\ UNCHANGED uvars

\* lines 131-147; ok is FALSE when localStorage.setItem throws (line 143)
deleteLocation(id, ok) ==
    /\ LET locations == getSavedLocations
           initialLength == Len(locations)
           updatedLocations == filter(locations, id)
       IN  IF Len(updatedLocations) = initialLength
           THEN /\ ok
                /\ sret' = StoreReturned("deleteLocation", id, FALSE)
                /\ UNCHANGED <<store, spent>>
           ELSE IF ok
           THEN /\ Incidents(FALSE, FALSE, TRUE)
                /\ store' = updatedLocations
                /\ sret' = StoreReturned("deleteLocation", id, TRUE)
           ELSE /\ Incidents(FALSE, TRUE, FALSE)
                /\ sret' = StoreReturned("deleteLocation", id, FALSE)
                /\ store' = store
    /\ UNCHANGED now
    /\ UNCHANGED uvars

\* lines 152-160; ok is FALSE when localStorage.removeItem throws (line 156)
clearAllLocations(ok) ==
    /\ IF ok
       THEN /\ Incidents(FALSE, FALSE, store # <<>>)
            /\ store' = <<>>
            /\ sret' = StoreReturned("clearAllLocations", <<>>, TRUE)
       ELSE /\ Incidents(FALSE, TRUE, FALSE)
            /\ sret' = StoreReturned("clearAllLocations", <<>>, FALSE)
            /\ store' = store
    /\ UNCHANGED now
    /\ UNCHANGED uvars

\* Locations to save.  The store compares coordinates for equality only, so
\* the places are numbered, PlaceWidth to a latitude, and the caller saves
\* the newest or the oldest stored place again, or the place after the
\* newest stored one.
PlaceWidth == 3

Place(k) == [lat |-> k \div PlaceWidth, lng |-> k % PlaceWidth]

PlaceNumber(loc) == (loc.lat * PlaceWidth) + loc.lng

SaveInputs ==
    {[lat |-> store[k].lat, lng |-> store[k].lng] : k \in {1, Len(store)} \cap DOMAIN store}
    \cup {Place(IF store = <<>> THEN 0 ELSE PlaceNumber(store[1]) + 1)}

\* Ids to delete: the id of a stored entry, or 0, which is no entry's id
DeleteInputs == {store[k].id : k \in 1..Len(store)} \cup {0}

Save == \E location \in SaveInputs, ok \in BOOLEAN : saveLocation(location, ok)

Delete == \E id \in DeleteInputs, ok \in BOOLEAN : deleteLocation(id, ok)

Clear == \E ok \in BOOLEAN : clearAllLocations(ok)

StoreNext ==
    \/ Save
    \/ Delete
    \/ Clear

StoreSpec == Init /\ [][StoreNext]_vars

(***************************************************************************)
(* The fixed point arithmetic is the source's: no division of the model    *)
(* leaves a remainder.                                                     *)
(***************************************************************************)
DivisionsExact ==
    /\ (pc = "generateUDPIN" /\ loopContinues(enc.level, enc.digits)) =>
          /\ (enc.maxLat - enc.minLat) % 4 = 0
          /\ (enc.maxLng - enc.minLng) % 4 = 0
    /\ (pc = "decodeUDPIN" /\ dec.i < Len(dec.cleanUDPIN)) =>
          /\ (dec.maxLat - dec.minLat) % 4 = 0
          /\ (dec.maxLon - dec.minLon) % 4 = 0
    /\ (pc = "decodeUDPIN" /\ dec.i = Len(dec.cleanUDPIN)) =>
          /\ (dec.minLat + dec.maxLat) % 2 = 0
          /\ (dec.minLon + dec.maxLon) % 2 = 0

(***************************************************************************)
(* Vocabulary of the properties.                                           *)
(***************************************************************************)
\* the 16 alphabet symbols: the entries of the grid matrix
Alphabet == {DIGIPIN_GRID[r][c] : r \in 1..4, c \in 1..4}

\* the call that produced the argument of the last call
Producer == hist[Len(hist)]

IsReturn(fn) == pc = "returned" /\ ret.fn = fn

\* the Regional bounding box, written in degrees: 2.5 <= lat <= 38.5 and
\* 63.5 <= lng <= 99.5
InRegionalBox(lat, lng) ==
    /\ 2 * lat >= 5 * LatScale
    /\ 2 * lat <= 77 * LatScale
    /\ 2 * lng >= 127 * LngScale
    /\ 2 * lng <= 199 * LngScale

\* a working box is the Regional (regional = TRUE) or the Global bounds
IsDomainBox(regional, minLat, maxLat, minLng, maxLng) ==
    IF regional
    THEN /\ 2 * minLat = 5 * LatScale   /\ 2 * maxLat = 77 * LatScale
         /\ 2 * minLng = 127 * LngScale /\ 2 * maxLng = 199 * LngScale
    ELSE /\ minLat = -90 * LatScale     /\ maxLat = 90 * LatScale
         /\ minLng = -180 * LngScale    /\ maxLng = 180 * LngScale

\* the number of alphabet symbols of a string
SymbolCount(s) == Len(SelectSeq(s, LAMBDA ch : ch \in Alphabet))

(***************************************************************************)
(* C1.  Round trip at the code level: for every coordinate with lat in     *)
(* [-90, 90] and lng in [-180, 180], encoding it, decoding the code and    *)
(* encoding the returned cell centre gives the first code again.           *)
(***************************************************************************)
C1_RoundTrip ==
    (/\ IsReturn("generateUDPIN")
     /\ Len(hist) = 2
     /\ hist[1].fn = "generateUDPIN"
     /\ hist[2].fn = "decodeUDPIN")
    => ret.out = hist[1].out

(***************************************************************************)
(* C2.  For every valid code c of 10 or 12 alphabet symbols, encoding the  *)
(* centre that decode(c) returns yields the symbols of c again, as many    *)
(* and the same.                                                           *)
(***************************************************************************)
C2_ReencodeCentre ==
    (/\ IsReturn("generateUDPIN")
     /\ Len(hist) = 1
     /\ hist[1].fn = "decodeUDPIN"
     /\ Len(hist[1].arg) \in {10, 12}
     /\ \A k \in 1..Len(hist[1].arg) : hist[1].arg[k] \in Alphabet)
    => removeHyphens(ret.out) = hist[1].arg

(***************************************************************************)
(* C3.  As claimed: generateUDPIN returns a raw code, a string of exactly  *)
(* the domain's code length (10 Regional, 12 Global) made of alphabet      *)
(* symbols only, without separators.                                       *)
(***************************************************************************)
C3_RawCode ==
    IsReturn("generateUDPIN") =>
        /\ Len(ret.out) = (IF InRegionalBox(ret.arg.lat, ret.arg.lng) THEN 10 ELSE 12)
        /\ \A k \in 1..Len(ret.out) : ret.out[k] \in Alphabet

(***************************************************************************)
(* C3, amended.  generateUDPIN returns the code in canonical form: the     *)
(* domain's number of alphabet symbols (10 Regional, 12 Global) with one   *)
(* separator "-" after symbols 3 and 6 (Regional) or 4 and 8 (Global), so  *)
(* 12 or 14 characters, and nothing but upper case alphabet symbols        *)
(* elsewhere.                                                              *)
(***************************************************************************)
C3_CanonicalCode ==
    IsReturn("generateUDPIN") =>
        LET regional == InRegionalBox(ret.arg.lat, ret.arg.lng)
            seps == IF regional THEN {4, 8} ELSE {5, 10}
        IN  /\ Len(ret.out) = (IF regional THEN 12 ELSE 14)
            /\ \A k \in 1..Len(ret.out) :
                  IF k \in seps THEN ret.out[k] = "-" ELSE ret.out[k] \in Alphabet

C3_Witness ==
    /\ IsReturn("generateUDPIN")
    /\ ~InRegionalBox(ret.arg.lat, ret.arg.lng)
    /\ Len(ret.out) = 14
    /\ ret.out[5] = "-"

(***************************************************************************)
(* C4.  For every lat in [-90, 90] and lng in [-180, 180] the result of    *)
(* generateUDPIN holds exactly 10 or exactly 12 alphabet symbols,          *)
(* separators not counted, and isValidUDPIN of that result is true.        *)
(***************************************************************************)
C4_EncodeIsValid ==
    /\ IsReturn("generateUDPIN") =>
          /\ SymbolCount(ret.out) \in {10, 12}
          /\ \A k \in 1..Len(ret.out) : ret.out[k] \in Alphabet \cup {"-"}
    /\ (IsReturn("isValidUDPIN") /\ hist # <<>> /\ Producer.fn = "generateUDPIN") =>
          ret.out = TRUE

C4_Witness ==
    /\ IsReturn("isValidUDPIN")
    /\ hist # <<>>
    /\ Producer.fn = "generateUDPIN"
    /\ Producer.arg.lat = GLOBAL_BOUNDS.maxLat
    /\ ret.out = TRUE

C6_IsValidIff ==
    IsReturn("isValidUDPIN") =>
        LET c == clean(ret.arg)
        IN  /\ ~ret.threw
            /\ ret.out = (/\ Len(c) \in {10, 12}
                          /\ \A k \in 1..Len(c) : c[k] \in Alphabet)
            /\ Len(c) \in {9, 11, 13} => ret.out = FALSE
            /\ (\E k \in 1..Len(c) : c[k] \notin Alphabet) => ret.out = FALSE

\* a string of cleaned length 10 or 12 rejected for one of its characters
C6_Witness ==
    /\ IsReturn("isValidUDPIN")
    /\ Len(clean(ret.arg)) \in {10, 12}
    /\ ret.out = FALSE

C8_InvalidCharacter ==
    (/\ IsReturn("decodeUDPIN")
     /\ Len(clean(ret.arg)) \in {10, 12}
     /\ \E k \in 1..Len(clean(ret.arg)) : clean(ret.arg)[k] \notin Alphabet)
    => LET c == clean(ret.arg)
           first == minOf({k \in 1..Len(c) : c[k] \notin Alphabet})
       IN  /\ ret.threw
           /\ ret.out # "Invalid DIGIPIN format"
           /\ ret.out = <<"Invalid character in DIGIPIN: ", c[first], first - 1>>

(***************************************************************************)
(* C9.  formatUDPIN removes separators and upper-cases; for cleaned        *)
(* length 10 it returns the symbols with a separator after symbols 3 and   *)
(* 6, for cleaned length 12 with a separator after symbols 4 and 8, and    *)
(* for any other cleaned length the cleaned string, without throwing.      *)
(***************************************************************************)
C9_Format ==
    IsReturn("formatUDPIN") =>
        LET c == clean(ret.arg)
            out == ret.out
        IN  /\ ~ret.threw
            /\ \A k \in 1..Len(out) : out[k] \notin {"t", "x", "U+FB00"}
            /\ Len(c) = 10 =>
                  /\ Len(out) = 12
                  /\ out[4] = "-" /\ out[8] = "-"
                  /\ \A k \in 1..10 :
                        out[IF k <= 3 THEN k ELSE IF k <= 6 THEN k + 1 ELSE k + 2] = c[k]
            /\ Len(c) = 12 =>
                  /\ Len(out) = 14
                  /\ out[5] = "-" /\ out[10] = "-"
                  /\ \A k \in 1..12 :
                        out[IF k <= 4 THEN k ELSE IF k <= 8 THEN k + 1 ELSE k + 2] = c[k]
            /\ Len(c) \notin {10, 12} =>
                  /\ out = c
                  /\ \A k \in 1..Len(out) : out[k] # "-"

\* a decorated, lower case input of 10 symbols was formatted
C9_Witness ==
    /\ IsReturn("formatUDPIN")
    /\ Len(clean(ret.arg)) = 10
    /\ \E k \in 1..Len(ret.arg) : ret.arg[k] = "t"
    /\ Len(ret.out) = 12

(***************************************************************************)
(* C10.  In decodeUDPIN the domain follows from the cleaned length alone   *)
(* (10: the Regional bounds, 12: the Global bounds), and the coordinate    *)
(* returned is the midpoint of the final working box: lat =                *)
(* (minLat + maxLat) / 2, lng = (minLng + maxLng) / 2.                     *)
(***************************************************************************)
C10_DecodeDomainAndMidpoint ==
    /\ [](pc = "decodeUDPIN" =>
            /\ dec.isIndia = (Len(dec.cleanUDPIN) = 10)
            /\ dec.i = 0 =>
                  IsDomainBox(Len(dec.cleanUDPIN) = 10,
                              dec.minLat, dec.maxLat, dec.minLon, dec.maxLon))
    /\ [][(pc = "decodeUDPIN" /\ pc' = "returned" /\ ~ret'.threw) =>
            /\ 2 * ret'.out.lat = dec.minLat + dec.maxLat
            /\ 2 * ret'.out.lng = dec.minLon + dec.maxLon
            /\ dec.minLat < dec.maxLat
            /\ dec.minLon < dec.maxLon]_vars

\* a 10 symbol code was decoded to the centre of a cell of the Regional box
C10_Witness ==
    /\ IsReturn("decodeUDPIN")
    /\ ~ret.threw
    /\ Len(clean(ret.arg)) = 10
    /\ InRegionalBox(ret.out.lat, ret.out.lng)

(***************************************************************************)
(* C11.  generateUDPIN(17.362231, 78.523231) yields the 12 symbol Global   *)
(* code "3F26-C49J-2MP4", as the self-test expects (lines 129-137).        *)
(***************************************************************************)
C11_GlobalLiteral ==
    (IsReturn("generateUDPIN") /\ ret.arg = Point_Global) => ret.out = Code_Global

(***************************************************************************)
(* C12.  generateUDPIN(28.622788, 77.213033) yields the Regional code      *)
(* "39J-49L-L8T4".                                                         *)
(***************************************************************************)
C12_DakBhawan ==
    (IsReturn("generateUDPIN") /\ ret.arg = Point_DakBhawan) => ret.out = Code_DakBhawan

C12_Witness ==
    /\ IsReturn("generateUDPIN")
    /\ ret.arg = Point_DakBhawan
    /\ InRegionalBox(ret.arg.lat, ret.arg.lng)
    /\ SymbolCount(ret.out) = 10

(***************************************************************************)
(* C13.  generateUDPIN(17.362230, 78.523235) yields the 10 symbol Regional *)
(* code "422-573-CF86".                                                    *)
(***************************************************************************)
C13_IndiaLiteral ==
    (IsReturn("generateUDPIN") /\ ret.arg = Point_India) =>
        /\ ret.out = Code_India
        /\ SymbolCount(ret.out) = 10

C13_Witness ==
    /\ IsReturn("generateUDPIN")
    /\ ret.arg = Point_India
    /\ Len(ret.out) = 12
    /\ hist = <<>>

(***************************************************************************)
(* C14.  Encoding the corners of the Regional box gives the codes the      *)
(* self-test expects: generateUDPIN(2.5, 63.5) returns "FCC-CCC-CCCC" and  *)
(* generateUDPIN(38.5, 99.5) returns "TLT-TTT-TTTT".                       *)
(***************************************************************************)
C14_CornerCodes ==
    IsReturn("generateUDPIN") =>
        /\ ret.arg = Point_SouthWest => ret.out = Code_SouthWest
        /\ ret.arg = Point_NorthEast => ret.out = Code_NorthEast

(***************************************************************************)
(* C15.  decodeUDPIN("FCC-CCC-CCCC") and decodeUDPIN("TLT-TTT-TTTT")       *)
(* return the centres of level 10 cells that have an extreme corner of the *)
(* Regional box as a corner: the south-west corner (2.5, 63.5) for one,    *)
(* the north-east corner (38.5, 99.5) for the other.                       *)
(***************************************************************************)
C15_CornerCells ==
    (IsReturn("decodeUDPIN") /\ ret.arg \in {Code_SouthWest, Code_NorthEast}) =>
        LET halfLat == (INDIA_BOUNDS.maxLat - INDIA_BOUNDS.minLat) \div (2 * (4^10))
            halfLng == (INDIA_BOUNDS.maxLon - INDIA_BOUNDS.minLon) \div (2 * (4^10))
            southWest == /\ ret.out.lat - halfLat = INDIA_BOUNDS.minLat
                         /\ ret.out.lng - halfLng = INDIA_BOUNDS.minLon
            northEast == /\ ret.out.lat + halfLat = INDIA_BOUNDS.maxLat
                         /\ ret.out.lng + halfLng = INDIA_BOUNDS.maxLon
        IN  /\ ~ret.threw
            /\ southWest \/ northEast

(***************************************************************************)
(* Steps of the two loops, for the properties of one level.                *)
(***************************************************************************)
\* one pass of the encoder's loop body
EncStep == pc = "generateUDPIN" /\ pc' = "generateUDPIN" /\ enc'.level = enc.level + 1

\* one pass of the decoder's loop body
DecStep == pc = "decodeUDPIN" /\ pc' = "decodeUDPIN" /\ dec'.i = dec.i + 1

\* the grid position (row, col) of an alphabet symbol
PositionOf(ch) ==
    CHOOSE rc \in (0..3) \X (0..3) : DIGIPIN_GRID[rc[1] + 1][rc[2] + 1] = ch

\* the symbol the encoder emitted in the step to the next state
Emitted == enc'.udpin[Len(enc.udpin) + 1]

(***************************************************************************)
(* C16.  The decoder uses the encoder's cell geometry: consuming the       *)
(* symbol at grid position (row, col) it narrows the working box to the    *)
(* latitude band [maxLat - (row+1)*latDiv, maxLat - row*latDiv] and the    *)
(* longitude band [minLng + col*lngDiv, minLng + (col+1)*lngDiv], row 0    *)
(* the northmost band and col 0 the westmost.                              *)
(***************************************************************************)
C16_SameGeometry ==
    [][DecStep =>
         LET rc == PositionOf(dec.cleanUDPIN[dec.i + 1])
             row == rc[1]
             col == rc[2]
             latDiv == (dec.maxLat - dec.minLat) \div 4
             lngDiv == (dec.maxLon - dec.minLon) \div 4
         IN  /\ dec'.minLat = dec.maxLat - ((row + 1) * latDiv)
             /\ dec'.maxLat = dec.maxLat - (row * latDiv)
             /\ dec'.minLon = dec.minLon + (col * lngDiv)
             /\ dec'.maxLon = dec.minLon + ((col + 1) * lngDiv)]_vars

(***************************************************************************)
(* C17.  At a level the encoder's column is the first i in 0..3 with       *)
(* lng < minLng + (i+1)*lngDiv, and column 3, the eastmost, when lng is    *)
(* exactly the eastern edge of the working box.                            *)
(***************************************************************************)
C17_ColumnSelection ==
    [][EncStep =>
         LET lngDiv == (enc.maxLng - enc.minLng) \div 4
             col == PositionOf(Emitted)[2]
             hits == {i \in 0..3 : enc.lng < enc.minLng + ((i + 1) * lngDiv)}
         IN  /\ hits # {} => col = minOf(hits)
             /\ enc.lng = enc.maxLng => col = 3]_vars

C19_Quartering ==
    /\ [][EncStep =>
            /\ enc.minLat <= enc'.minLat /\ enc'.maxLat <= enc.maxLat
            /\ enc.minLng <= enc'.minLng /\ enc'.maxLng <= enc.maxLng
            /\ 4 * (enc'.maxLat - enc'.minLat) = enc.maxLat - enc.minLat
            /\ 4 * (enc'.maxLng - enc'.minLng) = enc.maxLng - enc.minLng]_vars
    /\ [][DecStep =>
            /\ dec.minLat <= dec'.minLat /\ dec'.maxLat <= dec.maxLat
            /\ dec.minLon <= dec'.minLon /\ dec'.maxLon <= dec.maxLon
            /\ 4 * (dec'.maxLat - dec'.minLat) = dec.maxLat - dec.minLat
            /\ 4 * (dec'.maxLon - dec'.minLon) = dec.maxLon - dec.minLon]_vars
    /\ [](pc = "generateUDPIN" =>
            /\ enc.minLat < enc.maxLat
            /\ enc.minLng < enc.maxLng
            /\ (enc.maxLat - enc.minLat) * (4^(enc.level - 1))
                  = (IF enc.isIndia THEN 36 ELSE 180) * LatScale
            /\ (enc.maxLng - enc.minLng) * (4^(enc.level - 1))
                  = (IF enc.isIndia THEN 36 ELSE 360) * LngScale)
    /\ [](pc = "decodeUDPIN" =>
            /\ dec.minLat < dec.maxLat
            /\ dec.minLon < dec.maxLon
            /\ (dec.maxLat - dec.minLat) * (4^dec.i)
                  = (IF dec.isIndia THEN 36 ELSE 180) * LatScale
            /\ (dec.maxLon - dec.minLon) * (4^dec.i)
                  = (IF dec.isIndia THEN 36 ELSE 360) * LngScale)

\* the box after the twelfth level of a Global encoding, away from the domain's corner
C19_Witness ==
    /\ pc = "generateUDPIN"
    /\ enc.level = 13
    /\ enc.maxLat - enc.minLat = (180 * LatScale) \div (4^12)
    /\ enc.maxLng - enc.minLng = (360 * LngScale) \div (4^12)
    /\ enc.minLng > GLOBAL_BOUNDS.minLon
    /\ enc.maxLat < GLOBAL_BOUNDS.maxLat

(***************************************************************************)
(* C20.  Containment in the encoder: for a coordinate inside the selected  *)
(* domain's box, edges included, the coordinate lies inside the working    *)
(* box at the start of every level and after the last, so the code names a *)
(* cell that holds the point.                                              *)
(***************************************************************************)
C20_Containment ==
    pc = "generateUDPIN" =>
        /\ enc.minLat <= enc.lat /\ enc.lat <= enc.maxLat
        /\ enc.minLng <= enc.lng /\ enc.lng <= enc.maxLng

(***************************************************************************)
(* C21.  The grid alphabet is a bijection between the 16 symbols and the   *)
(* 16 (row, col) cells of the 4x4 matrix: no symbol occurs twice, and the  *)
(* decoder's lookup resolves every alphabet symbol to exactly one          *)
(* position.                                                               *)
(***************************************************************************)
C21_GridBijection ==
    /\ Cardinality(Alphabet) = 16
    /\ \A ch \in Alphabet :
          Cardinality({rc \in (1..4) \X (1..4) : DIGIPIN_GRID[rc[1]][rc[2]] = ch}) = 1
    /\ (pc = "decodeUDPIN" /\ dec.i < Len(dec.cleanUDPIN)) =>
          LET ch == dec.cleanUDPIN[dec.i + 1]
              at == gridScan(ch)
          IN  /\ at.found
              /\ \A r \in 0..3, c \in 0..3 :
                    DIGIPIN_GRID[r + 1][c + 1] = ch <=> (r = at.row /\ c = at.col)

\* the decoder is about to look up the last symbol of a 12 symbol code, the
\* symbol of the grid's last cell
C21_Witness ==
    /\ pc = "decodeUDPIN"
    /\ dec.i = 11
    /\ dec.cleanUDPIN[12] = "T"

(***************************************************************************)
(* C22.  decodeUDPIN and isValidUDPIN agree: decodeUDPIN returns a         *)
(* coordinate if and only if isValidUDPIN is true of the code, and throws  *)
(* otherwise; the validator's alphabet is exactly the set of symbols of    *)
(* the grid matrix, so no string the validator accepts fails the decoder's *)
(* lookup of a character.                                                  *)
(***************************************************************************)
C22_DecodeIffValid ==
    /\ validChars = Alphabet
    /\ IsReturn("decodeUDPIN") =>
          /\ ~ret.threw <=> isValidUDPIN(ret.arg)
          /\ ~ret.threw => (ret.out.lat \in Int /\ ret.out.lng \in Int)
          /\ ret.threw => ret.out = "Invalid DIGIPIN format"
    /\ (IsReturn("isValidUDPIN") /\ ret.out) =>
          \A k \in 1..Len(clean(ret.arg)) : gridScan(clean(ret.arg)[k]).found
    /\ (pc = "decodeUDPIN" /\ dec.i < Len(dec.cleanUDPIN)) =>
          /\ isValidUDPIN(dec.udpin)
          /\ gridScan(dec.cleanUDPIN[dec.i + 1]).found

\* a code of 12 characters was refused for a character outside the alphabet
C22_Witness ==
    /\ IsReturn("decodeUDPIN")
    /\ ret.threw
    /\ Len(clean(ret.arg)) = 12
    /\ \E k \in 1..Len(ret.arg) : ret.arg[k] = "X"

\* the lower case of a character
lowerOfChar(c) ==
    CASE c = "F" -> "f"
      [] c = "C" -> "c"
      [] c = "J" -> "j"
      [] c = "K" -> "k"
      [] c = "L" -> "l"
      [] c = "M" -> "m"
      [] c = "P" -> "p"
      [] c = "T" -> "t"
      [] c = "X" -> "x"
      [] OTHER -> c

\* s written otherwise: without separators, with one more separator at any
\* place, with one letter in lower case, with all letters in upper case
Variants(s) ==
    {removeHyphens(s), toUpperCase(s)}
    \cup {InsertAt(s, h, "-") : h \in 0..Len(s)}
    \cup {Subst(s, k, lowerOfChar(s[k])) : k \in 1..Len(s)}

(***************************************************************************)
(* C23.  isValidUDPIN, decodeUDPIN and formatUDPIN depend on the cleaned   *)
(* code only: strings that differ in separators or in letter case have the *)
(* same result, so isValidUDPIN(formatUDPIN(s)) = isValidUDPIN(s), and     *)
(* decodeUDPIN(formatUDPIN(s)) = decodeUDPIN(s) whenever s is valid.       *)
(***************************************************************************)
C23_CleanedOnly ==
    /\ IsReturn("isValidUDPIN") =>
          \A t \in Variants(ret.arg) : isValidUDPIN(t) = ret.out
    /\ IsReturn("formatUDPIN") =>
          \A t \in Variants(ret.arg) : formatUDPIN(t) = ret.out
    /\ IsReturn("decodeUDPIN") =>
          \A t \in Variants(ret.arg) :
              IF ret.threw THEN ~isValidUDPIN(t) ELSE ret.out = decodeOf(t)
    /\ (pc = "returned" /\ hist # <<>> /\ Producer.fn = "formatUDPIN") =>
          /\ ret.fn = "isValidUDPIN" => ret.out = isValidUDPIN(Producer.arg)
          /\ (ret.fn = "decodeUDPIN" /\ isValidUDPIN(Producer.arg)) =>
                /\ ~ret.threw
                /\ ret.out = decodeOf(Producer.arg)

\* a valid code written with a lower case letter was formatted, and the
\* formatted code decoded
C23_Witness ==
    /\ IsReturn("decodeUDPIN")
    /\ hist # <<>>
    /\ Producer.fn = "formatUDPIN"
    /\ \E k \in 1..Len(Producer.arg) : Producer.arg[k] = "t"
    /\ ~ret.threw

(***************************************************************************)
(* C24.  formatUDPIN is idempotent: formatUDPIN(formatUDPIN(s)) =          *)
(* formatUDPIN(s) for every string s of alphabet symbols, separators and   *)
(* other ASCII characters.                                                 *)
(***************************************************************************)
C24_FormatIdempotent ==
    /\ (IsReturn("formatUDPIN") /\ hist # <<>> /\ Producer.fn = "formatUDPIN") =>
          /\ ret.arg = Producer.out
          /\ ret.out = ret.arg
    /\ IsReturn("formatUDPIN") => formatUDPIN(ret.out) = ret.out

\* a raw 10 symbol string was formatted, and the result formatted again
C24_Witness ==
    /\ IsReturn("formatUDPIN")
    /\ hist # <<>>
    /\ Producer.fn = "formatUDPIN"
    /\ Len(Producer.arg) = 10
    /\ Len(ret.out) = 12

(***************************************************************************)
(* C25.  The encoder's output is in canonical form:                        *)
(* formatUDPIN(generateUDPIN(lat, lng)) = generateUDPIN(lat, lng); the     *)
(* string generateUDPIN returns has separators after symbols 3 and 6       *)
(* (Regional) or 4 and 8 (Global) and nowhere else.                        *)
(***************************************************************************)
C25_EncoderCanonical ==
    /\ (IsReturn("formatUDPIN") /\ hist # <<>> /\ Producer.fn = "generateUDPIN") =>
          /\ ret.arg = Producer.out
          /\ ret.out = ret.arg
    /\ IsReturn("generateUDPIN") =>
          LET seps == {k \in 1..Len(ret.out) : ret.out[k] = "-"}
          IN  IF InRegionalBox(ret.arg.lat, ret.arg.lng)
              THEN Len(ret.out) = 12 /\ seps = {4, 8}
              ELSE Len(ret.out) = 14 /\ seps = {5, 10}

\* a Global code went through formatUDPIN
C25_Witness ==
    /\ IsReturn("formatUDPIN")
    /\ hist # <<>>
    /\ Producer.fn = "generateUDPIN"
    /\ Len(ret.arg) = 14
    /\ ~InRegionalBox(Producer.arg.lat, Producer.arg.lng)

(***************************************************************************)
(* C26.  generateUDPIN terminates after exactly 10 levels (Regional) or 12 *)
(* levels (Global), emitting exactly one symbol per level, and             *)
(* decodeUDPIN terminates after one step per character of the cleaned      *)
(* code, at most 12.                                                       *)
(***************************************************************************)
C26_Terminates ==
    /\ [](pc = "generateUDPIN" =>
            /\ enc.digits = (IF InRegionalBox(enc.lat, enc.lng) THEN 10 ELSE 12)
            /\ enc.level \in 1..(enc.digits + 1)
            /\ SymbolCount(enc.udpin) = enc.level - 1)
    /\ [][EncStep => SymbolCount(enc'.udpin) = SymbolCount(enc.udpin) + 1]_vars
    /\ [][(pc = "generateUDPIN" /\ pc' # "generateUDPIN") =>
            /\ enc.level = enc.digits + 1
            /\ pc' = "returned"
            /\ ~ret'.threw
            /\ SymbolCount(ret'.out) = enc.digits]_vars
    /\ [](pc = "decodeUDPIN" =>
            /\ Len(dec.cleanUDPIN) <= 12
            /\ dec.i \in 0..Len(dec.cleanUDPIN))
    /\ [][DecStep => dec'.cleanUDPIN = dec.cleanUDPIN]_vars
    /\ [][(pc = "decodeUDPIN" /\ pc' # "decodeUDPIN") =>
            /\ dec.i = Len(dec.cleanUDPIN)
            /\ pc' = "returned"
            /\ ~ret'.threw]_vars
    /\ (pc = "generateUDPIN") ~> IsReturn("generateUDPIN")
    /\ (pc = "decodeUDPIN") ~> IsReturn("decodeUDPIN")

\* the encoder is at its twelfth and last level
C26_Witness ==
    /\ pc = "generateUDPIN"
    /\ enc.level = 12
    /\ enc.digits = 12
    /\ SymbolCount(enc.udpin) = 11

(***************************************************************************)
(* Vocabulary of the properties of the store.                              *)
(***************************************************************************)
\* two records have the same coordinates
SamePlace(a, b) == a.lat = b.lat /\ a.lng = b.lng

\* the step to the next state is a call of fn
StoreCall(fn) == sret'.fn = fn

(***************************************************************************)
(* C27.  Starting from an empty store, after any sequence of saveLocation, *)
(* deleteLocation and clearAllLocations calls the stored list has at most  *)
(* 10 entries (MAX_SAVED_LOCATIONS).                                       *)
(***************************************************************************)
C27_AtMostTen == MAX_SAVED_LOCATIONS = 10 /\ Len(store) <= 10

\* an eleventh location was saved into a full store
C27_Witness ==
    /\ Len(store) = 10
    /\ sret = StoreReturned("saveLocation", Place(10), TRUE)
    /\ spent = 0

(***************************************************************************)
(* C28.  saveLocation called with coordinates whose lat and lng both equal *)
(* those of a stored entry returns false and leaves the stored list        *)
(* unchanged; hence no two stored entries ever have the same (lat, lng).   *)
(***************************************************************************)
C28_NoDuplicates ==
    /\ [][(StoreCall("saveLocation")
           /\ \E k \in DOMAIN store : SamePlace(store[k], sret'.arg)) =>
            /\ sret'.out = FALSE
            /\ store' = store]_vars
    /\ [](\A j, k \in DOMAIN store : j # k => ~SamePlace(store[j], store[k]))

\* the oldest of several stored places was saved again and refused, next
\* to a stored place of the same latitude
C28_Witness ==
    /\ Len(store) >= 3
    /\ sret.fn = "saveLocation"
    /\ sret.out = FALSE
    /\ SamePlace(sret.arg, store[Len(store)])
    /\ \E k \in DOMAIN store : store[k].lat = sret.arg.lat /\ store[k].lng # sret.arg.lng

C30_UniqueIds ==
    /\ [](\A j, k \in DOMAIN store : j # k => store[j].id # store[k].id)
    /\ [][(StoreCall("deleteLocation") /\ sret'.out = TRUE) =>
            /\ Len(store') = Len(store) - 1
            /\ \E k \in DOMAIN store :
                  /\ store[k].id = sret'.arg
                  /\ store' = SubSeq(store, 1, k - 1) \o SubSeq(store, k + 1, Len(store))]_vars
    /\ [][(StoreCall("deleteLocation")
           /\ \A k \in DOMAIN store : store[k].id # sret'.arg) =>
            /\ sret'.out = FALSE
            /\ store' = store]_vars

=============================================================================
